---- MODULE Spec2Model ----
(***************************************************************************)
(* Model of the refresh-coordination engine of auth-refresh-queue:         *)
(*   RequestQueue (src/core/RequestQueue.ts) and AuthCore                  *)
(*   (src/core/AuthCore.ts).                                               *)
(*                                                                         *)
(* Spec      : the coordinator (AuthCore) driven by on401 calls,           *)
(*             registerAdapter calls and settlements of the adapter's      *)
(*             refreshToken promise.  The adapter's synchronous callbacks   *)
(*             follow their interface contract (applyToken and logout      *)
(*             return normally and do not call back into the core).        *)
(* SpecLive  : Spec plus weak fairness of the resumption of on401 after    *)
(*             its await (the adapter's refreshToken eventually settles).  *)
(* SpecQueue : a RequestQueue driven directly (add / process / rejectAll / *)
(*             clear), the way tests/core/RequestQueue.spec.ts drives it.  *)
(***************************************************************************)
EXTENDS Integers, Sequences, FiniteSets, TLC

\* ------------------------------------------------------------------ bounds
\* number of on401 calls issued over the life of the coordinator
MaxCalls == 3
\* number of registerAdapter calls over the life of the coordinator
MaxRegistrations == 2
\* largest explicitly configured maxQueueSize
MaxCapacity == 2
\* add calls the queue harness makes beyond the capacity
MaxExtraAdds == 2
\* the queue harness calls process / rejectAll / clear only while at most
\* this many tasks have been created
MaxReleasePoint == 5
\* on401 calls issued in the exploration that interleaves read-only calls
MaxObservedCalls == 2
\* on401 calls issued in the exploration with adapter callbacks that raise
MaxFaultyCalls == 2
\* on401 calls issued in the exploration with adapter callbacks that call
\* on401 themselves, the calls made from inside the callbacks included
MaxReentrantCalls == 3

\* --------------------------------------------------------- program values
\* RequestQueue constructor: maxSize: number = 100
DefaultMaxSize == 100

\* this.adapter = null
NoAdapter == "null"
\* adapters the application may register; A provides logout, B does not
Adapters == {"A", "B"}
HasLogout(a) == a = "A"

\* values refreshToken may resolve with: string | null
Null == "<null>"
Tokens == {"tok1"}
RefreshValues == Tokens \cup {Null, ""}
\* if (newToken): null and the empty string are falsy
\* variant: whatever refreshToken resolved with is taken for a credential
Truthy_Always(v) == TRUE
\* variant: only null is taken for an empty credential (newToken !== null)
Truthy_NotNull(v) == v # Null
Truthy(v) == v \notin {Null, ""}

\* Error objects: message plus the number interpolated into it (0: none)
Error(msg, n) == [msg |-> msg, size |-> n]
NoError == Error("", 0)
\* variant: the message does not carry the configured size
OverflowError_NoSize(n) == Error("Queue overflow: maximum size of ${this.maxSize} exceeded", 0)
OverflowError(n) == Error("Queue overflow: maximum size of ${this.maxSize} exceeded", n)
NotRegisteredError == Error("Adapter not registered", 0)
RefreshFailedError == Error("Token refresh failed", 0)
\* errors the adapter's refreshToken may raise
RefreshErrors == {Error("E1", 0)}
ApplyError == Error("applyToken threw", 0)
LogoutError == Error("logout threw", 0)

\* state of a promise created by new Promise((resolve, reject) => ...)
Pending == [st |-> "pending", val |-> "", err |-> NoError]
Fulfilled(v) == [st |-> "fulfilled", val |-> v, err |-> NoError]
Rejected(e) == [st |-> "rejected", val |-> "", err |-> e]

\* one event observed from outside the core: an adapter method invoked
\* ("refreshToken", "applyToken", "logout"), the outcome of refreshToken
\* ("refreshThrew": raised before returning a promise; "refreshSettled": its
\* promise settled, task = the on401 call awaiting it, err = NoError when it
\* resolved with val), or a task callback invoked ("resolve", "reject")
Ev(ev, a, t, v, e) == [ev |-> ev, adapter |-> a, task |-> t, val |-> v, err |-> e]

\* options accepted by the constructors: maxQueueSize given or not
OptionSets ==
  {[given |-> FALSE, maxQueueSize |-> 0]}
    \cup {[given |-> TRUE, maxQueueSize |-> n] : n \in 1..MaxCapacity}

\* behaviour of the adapter's synchronous callbacks during one run of on401:
\* applyToken / logout return normally or raise
Behaviours == [applyThrows : BOOLEAN, logoutThrows : BOOLEAN]
WellBehaved == [applyThrows |-> FALSE, logoutThrows |-> FALSE]

\* what a callback raised, recorded with the event of its invocation
Raised(throws, e) == IF throws THEN e ELSE NoError

VARIABLES
  options,       \* AuthCoreOptions given to the constructor
  maxSize,       \* RequestQueue.maxSize
  queue,         \* RequestQueue.queue: sequence of task ids
  isRefreshing,  \* AuthCore.isRefreshing
  adapter,       \* AuthCore.adapter
  nRegs,         \* number of registerAdapter calls made so far
  awaiting,      \* on401 invocations suspended at `await refreshToken()`
  nTasks,        \* number of Task objects created so far (ids 1..nTasks)
  task,          \* task[t]: state of the promise whose resolve/reject is task t
  escaped,       \* escaped[t]: error thrown out of the async body of call t
  log,           \* events observed from outside the core, in order
  thrown,        \* error thrown to the harness by the last RequestQueue.add
  lastOp,        \* RequestQueue method the queue harness called last
  addRun,        \* consecutive add calls made by the queue harness
  shouldRefresh, \* AuthCoreOptions.shouldRefresh: the custom classifier, if any
  lastRegistered,\* argument of the last registerAdapter call
  observed       \* what the last read-only call (isAuthError, getter) returned

vars == <<options, maxSize, queue, isRefreshing, adapter, nRegs, awaiting, nTasks,
          task, escaped, log, thrown, lastOp, addRun, shouldRefresh,
          lastRegistered, observed>>

\* ------------------------------------------------------------ RequestQueue
\* variant: the constructor ignores its argument
RequestQueue_IgnoresArg(opt) == DefaultMaxSize
RequestQueue(opt) == IF opt.given THEN opt.maxQueueSize ELSE DefaultMaxSize

\* variant: the bound is tested with > instead of >=
add_OffByOne(q, cap, t) ==
  IF Len(q) > cap
    THEN [queue |-> q, thrown |-> OverflowError(cap)]
    ELSE [queue |-> Append(q, t), thrown |-> NoError]

\* variant: the task is pushed before the bound is tested
add_PushThenCheck(q, cap, t) ==
  IF Len(q) >= cap
    THEN [queue |-> Append(q, t), thrown |-> OverflowError(cap)]
    ELSE [queue |-> Append(q, t), thrown |-> NoError]

\* variant: a full queue makes room by dropping its oldest task
add_DropsOldest(q, cap, t) ==
  IF Len(q) >= cap
    THEN [queue |-> Append(Tail(q), t), thrown |-> NoError]
    ELSE [queue |-> Append(q, t), thrown |-> NoError]

\* variant: the task is put at the head of the queue
add_Unshift(q, cap, t) ==
  IF Len(q) >= cap
    THEN [queue |-> q, thrown |-> OverflowError(cap)]
    ELSE [queue |-> <<t>> \o q, thrown |-> NoError]

add(q, cap, t) ==
  IF Len(q) >= cap
    THEN [queue |-> q, thrown |-> OverflowError(cap)]
    ELSE [queue |-> Append(q, t), thrown |-> NoError]

\* variant: clear() truncates to the oldest task instead of emptying
clear_KeepsHead(q) == IF q = << >> THEN q ELSE <<Head(q)>>
clear(q) == << >>

size(q) == Len(q)

\* variant: process() does not clear the queue
process_NoClear(q) ==
  [queue |-> q,
   events |-> [i \in 1..Len(q) |-> Ev("resolve", "", q[i], "true", NoError)]]

\* variant: task.resolve() is called without a value
process_ResolveUndefined(q) ==
  [queue |-> clear(q),
   events |-> [i \in 1..Len(q) |-> Ev("resolve", "", q[i], "undefined", NoError)]]

process(q) ==
  [queue |-> clear(q),
   events |-> [i \in 1..Len(q) |-> Ev("resolve", "", q[i], "true", NoError)]]

\* variant: rejectAll() does not clear the queue
rejectAll_NoClear(q, error) ==
  [queue |-> q,
   events |-> [i \in 1..Len(q) |-> Ev("reject", "", q[i], "", error)]]

rejectAll(q, error) ==
  [queue |-> clear(q),
   events |-> [i \in 1..Len(q) |-> Ev("reject", "", q[i], "", error)]]

\* effect of the invoked resolve / reject functions on their promises: the
\* first invocation settles the promise, later ones are ignored
RECURSIVE Settle(_, _)
Settle(ts, evs) ==
  IF evs = << >> THEN ts
  ELSE LET e == Head(evs)
           settles == e.ev \in {"resolve", "reject"} /\ ts[e.task].st = "pending"
           out == IF e.ev = "resolve" THEN Fulfilled(e.val) ELSE Rejected(e.err)
       IN Settle(IF settles THEN [ts EXCEPT ![e.task] = out] ELSE ts, Tail(evs))

\* ---------------------------------------------------------------- AuthCore
\* on401: if (this.isRefreshing) -- only queue the caller
\* variant: the flag is not consulted
ShouldQueue_Never(refreshing) == FALSE
\* variant: the condition is inverted
ShouldQueue_Inverted(refreshing) == ~refreshing
ShouldQueue(refreshing) == refreshing

\* variant: the queue is cleared instead of rejected
handleRefreshFailure_ClearsOnly(q, ad, error, beh) ==
  LET callsLogout == ad # NoAdapter /\ HasLogout(ad)
  IN [queue |-> clear(q),
      events |-> IF callsLogout THEN <<Ev("logout", ad, 0, "", Raised(beh.logoutThrows, LogoutError))>> ELSE << >>,
      thrown |-> IF callsLogout /\ beh.logoutThrows THEN LogoutError ELSE NoError]

\* variant: nothing is done when no adapter is registered
handleRefreshFailure_NeedsAdapter(q, ad, error, beh) ==
  LET r == rejectAll(q, error)
      callsLogout == ad # NoAdapter /\ HasLogout(ad)
  IN IF ad = NoAdapter
       THEN [queue |-> q, events |-> << >>, thrown |-> NoError]
       ELSE [queue |-> r.queue,
             events |-> r.events \o
                        (IF callsLogout THEN <<Ev("logout", ad, 0, "", Raised(beh.logoutThrows, LogoutError))>> ELSE << >>),
             thrown |-> IF callsLogout /\ beh.logoutThrows THEN LogoutError ELSE NoError]

\* handleRefreshFailure: rejectAll, then the optional logout
\* variant: logout is invoked once for every rejected waiter
handleRefreshFailure_LogoutPerWaiter(q, ad, error, beh) ==
  LET r == rejectAll(q, error)
      callsLogout == ad # NoAdapter /\ HasLogout(ad)
  IN [queue |-> r.queue,
      events |-> r.events
                   \o (IF callsLogout
                         THEN [i \in 1..Len(q) |-> Ev("logout", ad, 0, "", Raised(beh.logoutThrows, LogoutError))]
                         ELSE << >>),
      thrown |-> IF callsLogout /\ beh.logoutThrows THEN LogoutError ELSE NoError]

\* variant: logout is invoked before the waiters are rejected
handleRefreshFailure_LogoutFirst(q, ad, error, beh) ==
  LET r == rejectAll(q, error)
      callsLogout == ad # NoAdapter /\ HasLogout(ad)
  IN [queue |-> r.queue,
      events |-> (IF callsLogout THEN <<Ev("logout", ad, 0, "", Raised(beh.logoutThrows, LogoutError))>> ELSE << >>)
                   \o r.events,
      thrown |-> IF callsLogout /\ beh.logoutThrows THEN LogoutError ELSE NoError]

handleRefreshFailure(q, ad, error, beh) ==
  LET r == rejectAll(q, error)
      callsLogout == ad # NoAdapter /\ HasLogout(ad)
  IN [queue |-> r.queue,
      events |-> r.events \o
                 (IF callsLogout THEN <<Ev("logout", ad, 0, "", Raised(beh.logoutThrows, LogoutError))>> ELSE << >>),
      thrown |-> IF callsLogout /\ beh.logoutThrows THEN LogoutError ELSE NoError]

\* the try block of on401 once refreshToken has produced res:
\* res.kind = "value" (resolved with res.val) or "throw" (raised res.err)
\* variant: the waiters are released before the credential is applied
TryBlock_ReleaseFirst(q, ad, res, beh) ==
  IF res.kind = "throw"
    THEN [queue |-> q, events |-> << >>, thrown |-> res.err]
  ELSE IF Truthy(res.val)
    THEN LET p == process(q)
         IN [queue |-> p.queue,
             events |-> p.events \o <<Ev("applyToken", ad, 0, res.val, Raised(beh.applyThrows, ApplyError))>>,
             thrown |-> IF beh.applyThrows THEN ApplyError ELSE NoError]
  ELSE handleRefreshFailure(q, ad, RefreshFailedError, beh)

TryBlock(q, ad, res, beh) ==
  IF res.kind = "throw"
    THEN [queue |-> q, events |-> << >>, thrown |-> res.err]
  ELSE IF Truthy(res.val)
    THEN LET applied == <<Ev("applyToken", ad, 0, res.val, Raised(beh.applyThrows, ApplyError))>>
             p == process(q)
         IN IF beh.applyThrows
              THEN [queue |-> q, events |-> applied, thrown |-> ApplyError]
              ELSE [queue |-> p.queue, events |-> applied \o p.events, thrown |-> NoError]
  ELSE handleRefreshFailure(q, ad, RefreshFailedError, beh)

\* variant: the catch block swallows the error
CatchBlock_Swallows(try, ad, beh) ==
  [queue |-> try.queue, events |-> try.events, escaped |-> NoError]

\* the catch block of on401 applied to the outcome of the try block; the
\* finally block (isRefreshing = false) is set by the actions
\* variant: the caught error is replaced by the synthesized one
CatchBlock_Wraps(try, ad, beh) ==
  IF try.thrown = NoError
    THEN [queue |-> try.queue, events |-> try.events, escaped |-> NoError]
    ELSE LET h == handleRefreshFailure(try.queue, ad, RefreshFailedError, beh)
         IN [queue |-> h.queue, events |-> try.events \o h.events, escaped |-> h.thrown]

CatchBlock(try, ad, beh) ==
  IF try.thrown = NoError
    THEN [queue |-> try.queue, events |-> try.events, escaped |-> NoError]
    ELSE LET h == handleRefreshFailure(try.queue, ad, try.thrown, beh)
         IN [queue |-> h.queue, events |-> try.events \o h.events, escaped |-> h.thrown]

\* the finally block of on401: this.isRefreshing = false
\* variant: the flag is left as it was
FinallyBlock_Missing(refreshing) == refreshing
FinallyBlock(refreshing) == FALSE

\* state of the promise a caller got from on401 call c
Returned(c) ==
  IF escaped[c] # NoError THEN Rejected(escaped[c])
  ELSE IF c \in awaiting THEN Pending
  ELSE task[c]

\* get refreshing()
refreshing == isRefreshing

\* get queueSize()
\* variant: the caller that triggered the refresh is not counted
queueSize_ExcludesTrigger == IF isRefreshing THEN size(queue) - 1 ELSE size(queue)
queueSize == size(queue)

\* ------------------------------------------------------------- isAuthError
\* JavaScript values a status property may hold: undefined (property absent),
\* a number, or a string of digits
Undefined == [type |-> "undefined", num |-> 0]
Num(n) == [type |-> "number", num |-> n]
Str(n) == [type |-> "string", num |-> n]
StatusValues == {Undefined, Num(401), Num(403), Num(500), Str(401)}

\* values passed to isAuthError (error: unknown): null / undefined, a
\* primitive, a plain object with optional `response` and `status`, or an
\* instance of Response
ErrorValue(k, hasResp, rs, st) ==
  [kind |-> k, hasResponse |-> hasResp, responseStatus |-> rs, status |-> st]
NullishError == ErrorValue("nullish", FALSE, Undefined, Undefined)
ErrorValues ==
  {NullishError, ErrorValue("primitive", FALSE, Undefined, Undefined)}
    \cup {ErrorValue("object", FALSE, Undefined, st) : st \in StatusValues}
    \cup {ErrorValue("object", TRUE, rs, st) : rs \in StatusValues, st \in StatusValues}
    \cup {ErrorValue("Response", FALSE, Undefined, Num(n)) : n \in {401, 403, 500}}

\* err?.response?.status
ResponseStatusOf(e) ==
  IF e.kind = "object" /\ e.hasResponse THEN e.responseStatus ELSE Undefined
\* err?.status
StatusOf(e) == IF e.kind \in {"object", "Response"} THEN e.status ELSE Undefined
\* err instanceof Response
InstanceOfResponse(e) == e.kind = "Response"

\* x === 401
\* variant: loose equality, x == 401, which a string of the digits satisfies
StrictEquals401_Loose(x) == x.type \in {"number", "string"} /\ x.num = 401
StrictEquals401(x) == x = Num(401)

\* the default heuristics of isAuthError
DefaultHeuristics(e) ==
  \/ StrictEquals401(ResponseStatusOf(e))
  \/ StrictEquals401(StatusOf(e))
  \/ (InstanceOfResponse(e) /\ StrictEquals401(StatusOf(e)))

\* options.shouldRefresh: absent, or one of three caller-supplied predicates
NoClassifier == "<none>"
Classifiers == {"always", "never", "forbidden"}
Custom(cls, e) ==
  CASE cls = "always" -> TRUE
    [] cls = "never" -> FALSE
    [] OTHER -> ResponseStatusOf(e) = Num(403) \/ StatusOf(e) = Num(403)

\* variant: the default heuristics are consulted before the custom classifier
isAuthError_DefaultFirst(cls, e) ==
  DefaultHeuristics(e) \/ (cls # NoClassifier /\ Custom(cls, e))

isAuthError(cls, e) ==
  IF cls # NoClassifier THEN Custom(cls, e) ELSE DefaultHeuristics(e)

\* result of a read-only call: boolean results in bool, numbers in num
Observation(op, arg, b, n) == [op |-> op, arg |-> arg, bool |-> b, num |-> n]
NoObservation == Observation("none", NullishError, FALSE, 0)

\* -------------------------------------------------------------------- Init
\* field initialiser: private isRefreshing = false
\* variant: the coordinator is constructed already refreshing
isRefreshingInitially_True == TRUE
isRefreshingInitially == FALSE

\* new AuthCore(options)
Constructed ==
  /\ options \in OptionSets
  /\ maxSize = RequestQueue(options)
  /\ queue = << >>
  /\ isRefreshing = isRefreshingInitially
  /\ adapter = NoAdapter
  /\ nRegs = 0
  /\ awaiting = {}
  /\ nTasks = 0
  /\ task = << >>
  /\ escaped = << >>
  /\ log = << >>
  /\ thrown = NoError
  /\ lastOp = "new"
  /\ addRun = 0
  /\ shouldRefresh \in {NoClassifier} \cup Classifiers
  /\ lastRegistered = NoAdapter
  /\ observed = NoObservation

\* on401 and registerAdapter never read shouldRefresh: the coordinator is
\* explored for the construction without a custom classifier
Init == Constructed /\ shouldRefresh = NoClassifier

\* ----------------------------------------------------- coordinator actions
\* variant: an adapter already registered is kept (this.adapter ??= adapter)
registerAdapter_KeepsFirst(a) ==
  /\ nRegs < MaxRegistrations
  /\ adapter' = (IF adapter = NoAdapter THEN a ELSE adapter)
  /\ lastRegistered' = a
  /\ nRegs' = nRegs + 1
  /\ UNCHANGED <<options, maxSize, queue, isRefreshing, awaiting, nTasks,
                 task, escaped, log, thrown, lastOp, addRun, shouldRefresh, observed>>

registerAdapter(a) ==
  /\ nRegs < MaxRegistrations
  /\ adapter' = a
  /\ lastRegistered' = a
  /\ nRegs' = nRegs + 1
  /\ UNCHANGED <<options, maxSize, queue, isRefreshing, awaiting, nTasks,
                 task, escaped, log, thrown, lastOp, addRun, shouldRefresh, observed>>

\* on401 from its call to its first suspension or its return.
\* sync.throws: refreshToken raises sync.err before returning a promise;
\* beh: what the adapter's callbacks do when this run invokes them
on401(sync, beh) ==
  /\ nTasks < MaxCalls
  /\ LET t == nTasks + 1
         a == add(queue, maxSize, t)
         created == Append(task, IF a.thrown = NoError THEN Pending ELSE Rejected(a.thrown))
         called == <<Ev("refreshToken", adapter, 0, "", NoError)>>
                     \o (IF sync.throws THEN <<Ev("refreshThrew", adapter, t, "", sync.err)>>
                                         ELSE << >>)
         failure == IF adapter = NoAdapter THEN NotRegisteredError ELSE sync.err
         c == CatchBlock([queue |-> a.queue, events |-> << >>, thrown |-> failure],
                         adapter, beh)
     IN /\ nTasks' = t
        /\ IF ShouldQueue(isRefreshing)
             THEN /\ queue' = a.queue
                  /\ task' = created
                  /\ escaped' = Append(escaped, NoError)
                  /\ UNCHANGED <<isRefreshing, awaiting, log>>
           ELSE IF adapter = NoAdapter \/ sync.throws
             THEN /\ queue' = c.queue
                  /\ task' = Settle(created, c.events)
                  /\ escaped' = Append(escaped, c.escaped)
                  /\ log' = log \o (IF adapter = NoAdapter THEN << >> ELSE called) \o c.events
                  /\ isRefreshing' = FinallyBlock(TRUE)
                  /\ UNCHANGED awaiting
           ELSE /\ queue' = a.queue
                /\ task' = created
                /\ escaped' = Append(escaped, NoError)
                /\ log' = log \o called
                /\ isRefreshing' = TRUE
                /\ awaiting' = awaiting \cup {t}
  /\ UNCHANGED <<options, maxSize, adapter, nRegs, thrown, lastOp, addRun,
                 shouldRefresh, lastRegistered, observed>>

\* the continuation applies the credential to, and signs out, the adapter that
\* was registered when the cycle started instead of reading this.adapter anew
on401Resume_CapturedAdapter(c, res, beh) ==
  /\ c \in awaiting
  /\ LET calls == {i \in 1..Len(log) : log[i].ev = "refreshToken"}
         started == log[CHOOSE i \in calls : \A j \in calls : j <= i].adapter
         try == TryBlock(queue, started, res, beh)
         r == CatchBlock(try, started, beh)
     IN /\ queue' = r.queue
        /\ task' = Settle(task, r.events)
        /\ escaped' = [escaped EXCEPT ![c] = r.escaped]
        /\ log' = log \o <<Ev("refreshSettled", "", c, res.val, res.err)>> \o r.events
  /\ isRefreshing' = FinallyBlock(isRefreshing)
  /\ awaiting' = awaiting \ {c}
  /\ UNCHANGED <<options, maxSize, adapter, nRegs, nTasks, thrown, lastOp, addRun,
                 shouldRefresh, lastRegistered, observed>>

\* on401 call c resumes after `await this.adapter.refreshToken()` with the
\* settlement res of that promise and runs to its return
on401Resume(c, res, beh) ==
  /\ c \in awaiting
  /\ LET try == TryBlock(queue, adapter, res, beh)
         r == CatchBlock(try, adapter, beh)
     IN /\ queue' = r.queue
        /\ task' = Settle(task, r.events)
        /\ escaped' = [escaped EXCEPT ![c] = r.escaped]
        /\ log' = log \o <<Ev("refreshSettled", "", c, res.val, res.err)>> \o r.events
  /\ isRefreshing' = FinallyBlock(isRefreshing)
  /\ awaiting' = awaiting \ {c}
  /\ UNCHANGED <<options, maxSize, adapter, nRegs, nTasks, thrown, lastOp, addRun,
                 shouldRefresh, lastRegistered, observed>>

SyncBehaviours ==
  {[throws |-> FALSE, err |-> NoError]} \cup {[throws |-> TRUE, err |-> e] : e \in RefreshErrors}

Settlements ==
  {[kind |-> "value", val |-> v, err |-> NoError] : v \in RefreshValues}
    \cup {[kind |-> "throw", val |-> "", err |-> e] : e \in RefreshErrors}

\* the adapter's callbacks return normally, as the adapter contract declares
Resume == \E c \in awaiting : \E res \in Settlements : on401Resume(c, res, WellBehaved)

Next ==
  \/ \E a \in Adapters : registerAdapter(a)
  \/ \E s \in SyncBehaviours : on401(s, WellBehaved)
  \/ Resume

Spec == Init /\ [][Next]_vars

SpecLive == Spec /\ WF_vars(Resume)

\* the coordinator with an adapter whose applyToken and logout may raise
ResumeFaulty ==
  \E c \in awaiting : \E res \in Settlements : \E beh \in Behaviours :
    on401Resume(c, res, beh)

NextFaulty ==
  \/ \E a \in Adapters : registerAdapter(a)
  \/ nTasks < MaxFaultyCalls
       /\ \E s \in SyncBehaviours : \E beh \in Behaviours : on401(s, beh)
  \/ ResumeFaulty

SpecFaulty == Init /\ [][NextFaulty]_vars

\* ---- adapter callbacks that call on401 themselves ----

\* an on401 call made from inside an adapter callback of the running cycle:
\* isRefreshing was set at line 79 and is reset only in the finally clause, so
\* the call takes the branch of lines 72-76: it stores its callbacks and
\* returns its promise, already rejected when the queue is full
on401Nested(q, cap, n) ==
  LET a == add(q, cap, n)
  IN [queue |-> a.queue,
      promise |-> IF a.thrown = NoError THEN Pending ELSE Rejected(a.thrown)]

\* on401 while Idle, with a refreshToken whose synchronous part calls on401
on401CalledBack(sync) ==
  /\ nTasks + 1 < MaxReentrantCalls
  /\ ~ShouldQueue(isRefreshing)
  /\ adapter # NoAdapter
  /\ LET t == nTasks + 1
         n == nTasks + 2
         a == add(queue, maxSize, t)
         nested == on401Nested(a.queue, maxSize, n)
         created == task \o <<IF a.thrown = NoError THEN Pending ELSE Rejected(a.thrown),
                              nested.promise>>
         called == <<Ev("refreshToken", adapter, 0, "", NoError),
                     Ev("on401", "refreshToken", n, "", nested.promise.err)>>
                     \o (IF sync.throws THEN <<Ev("refreshThrew", adapter, t, "", sync.err)>>
                                         ELSE << >>)
         c == CatchBlock([queue |-> nested.queue, events |-> << >>, thrown |-> sync.err],
                         adapter, WellBehaved)
     IN /\ nTasks' = n
        /\ IF sync.throws
             THEN /\ queue' = c.queue
                  /\ task' = Settle(created, c.events)
                  /\ escaped' = escaped \o <<c.escaped, NoError>>
                  /\ log' = log \o called \o c.events
                  /\ isRefreshing' = FinallyBlock(TRUE)
                  /\ UNCHANGED awaiting
             ELSE /\ queue' = nested.queue
                  /\ task' = created
                  /\ escaped' = escaped \o <<NoError, NoError>>
                  /\ log' = log \o called
                  /\ isRefreshing' = TRUE
                  /\ awaiting' = awaiting \cup {t}
  /\ UNCHANGED <<options, maxSize, adapter, nRegs, thrown, lastOp, addRun,
                 shouldRefresh, lastRegistered, observed>>

\* on401 call c resumes after the await and runs to its return, with an
\* applyToken that calls on401 before the queue is processed (line 94), or a
\* logout that calls on401 after the queue was rejected (line 115)
on401ResumeCalledBack(c, res, from) ==
  /\ nTasks < MaxReentrantCalls
  /\ c \in awaiting
  /\ LET n == nTasks + 1
         applies == res.kind = "value" /\ Truthy(res.val)
         inApply == on401Nested(queue, maxSize, n)
         try == TryBlock(IF from = "applyToken" THEN inApply.queue ELSE queue,
                         adapter, res, WellBehaved)
         r == CatchBlock(try, adapter, WellBehaved)
         inLogout == on401Nested(r.queue, maxSize, n)
         nested == IF from = "applyToken" THEN inApply ELSE inLogout
         call == Ev("on401", from, n, "", nested.promise.err)
     IN /\ IF from = "applyToken"
             THEN applies
             ELSE ~applies /\ adapter # NoAdapter /\ HasLogout(adapter)
        /\ nTasks' = n
        /\ queue' = IF from = "applyToken" THEN r.queue ELSE inLogout.queue
        /\ task' = IF from = "applyToken"
                     THEN Settle(Append(task, nested.promise), r.events)
                     ELSE Append(Settle(task, r.events), nested.promise)
        /\ escaped' = Append([escaped EXCEPT ![c] = r.escaped], NoError)
        /\ log' = log \o <<Ev("refreshSettled", "", c, res.val, res.err)>>
                      \o (IF from = "applyToken"
                            THEN <<Head(r.events), call>> \o Tail(r.events)
                            ELSE r.events \o <<call>>)
  /\ isRefreshing' = FinallyBlock(isRefreshing)
  /\ awaiting' = awaiting \ {c}
  /\ UNCHANGED <<options, maxSize, adapter, nRegs, thrown, lastOp, addRun,
                 shouldRefresh, lastRegistered, observed>>

NextReentrant ==
  \/ \E a \in Adapters : registerAdapter(a)
  \/ nTasks < MaxReentrantCalls /\ \E s \in SyncBehaviours : on401(s, WellBehaved)
  \/ Resume
  \/ \E s \in SyncBehaviours : on401CalledBack(s)
  \/ \E c \in awaiting : \E res \in Settlements :
       \E from \in {"applyToken", "logout"} : on401ResumeCalledBack(c, res, from)

SpecReentrant == Init /\ [][NextReentrant]_vars

\* ------------------------------------------------------ read-only operations
\* core.isAuthError(e)
IsAuthErrorCall(e) ==
  /\ observed' = Observation("isAuthError", e, isAuthError(shouldRefresh, e), 0)
  /\ UNCHANGED <<options, maxSize, queue, isRefreshing, adapter, nRegs, awaiting, nTasks,
                 task, escaped, log, thrown, lastOp, addRun, shouldRefresh, lastRegistered>>

\* core.refreshing
GetRefreshing ==
  /\ observed' = Observation("refreshing", NullishError, refreshing, 0)
  /\ UNCHANGED <<options, maxSize, queue, isRefreshing, adapter, nRegs, awaiting, nTasks,
                 task, escaped, log, thrown, lastOp, addRun, shouldRefresh, lastRegistered>>

\* core.queueSize
GetQueueSize ==
  /\ observed' = Observation("queueSize", NullishError, FALSE, queueSize)
  /\ UNCHANGED <<options, maxSize, queue, isRefreshing, adapter, nRegs, awaiting, nTasks,
                 task, escaped, log, thrown, lastOp, addRun, shouldRefresh, lastRegistered>>

\* the classifier alone, applied to every error value
NextClassify == \E e \in ErrorValues : IsAuthErrorCall(e)

SpecClassify == Constructed /\ [][NextClassify]_vars

\* errors the read-only calls are made with between the coordinator's steps
SampleErrors ==
  {NullishError,
   ErrorValue("object", TRUE, Num(401), Undefined),
   ErrorValue("object", FALSE, Undefined, Num(403))}

\* the coordinator, with read-only calls made in every state it reaches
NextObserve ==
  \/ Next /\ nTasks' <= MaxObservedCalls
  \/ \E e \in SampleErrors : IsAuthErrorCall(e)
  \/ GetRefreshing
  \/ GetQueueSize

SpecObserve == Constructed /\ [][NextObserve]_vars

\* ---------------------------------------------------- queue harness actions
\* queue.add(task) with a fresh task
AddCall ==
  /\ nTasks < maxSize + MaxExtraAdds
  /\ LET t == nTasks + 1
         a == add(queue, maxSize, t)
     IN /\ nTasks' = t
        /\ queue' = a.queue
        /\ thrown' = a.thrown
        /\ task' = Append(task, Pending)
        /\ escaped' = Append(escaped, NoError)
  /\ lastOp' = "add"
  /\ addRun' = addRun + 1
  /\ UNCHANGED <<options, maxSize, isRefreshing, adapter, nRegs, awaiting, log,
                 shouldRefresh, lastRegistered, observed>>

\* queue.process()
ProcessCall ==
  /\ nTasks <= MaxReleasePoint
  /\ LET p == process(queue)
     IN /\ queue' = p.queue
        /\ task' = Settle(task, p.events)
        /\ log' = log \o p.events
  /\ thrown' = NoError
  /\ lastOp' = "process"
  /\ addRun' = 0
  /\ UNCHANGED <<options, maxSize, isRefreshing, adapter, nRegs, awaiting, nTasks, escaped,
                 shouldRefresh, lastRegistered, observed>>

\* queue.rejectAll(error)
RejectAllCall(error) ==
  /\ nTasks <= MaxReleasePoint
  /\ LET r == rejectAll(queue, error)
     IN /\ queue' = r.queue
        /\ task' = Settle(task, r.events)
        /\ log' = log \o r.events
  /\ thrown' = NoError
  /\ lastOp' = "rejectAll"
  /\ addRun' = 0
  /\ UNCHANGED <<options, maxSize, isRefreshing, adapter, nRegs, awaiting, nTasks, escaped,
                 shouldRefresh, lastRegistered, observed>>

\* queue.clear()
ClearCall ==
  /\ nTasks <= MaxReleasePoint
  /\ queue' = clear(queue)
  /\ thrown' = NoError
  /\ lastOp' = "clear"
  /\ addRun' = 0
  /\ UNCHANGED <<options, maxSize, isRefreshing, adapter, nRegs, awaiting, nTasks,
                 task, escaped, log, shouldRefresh, lastRegistered, observed>>

NextQueue ==
  \/ AddCall
  \/ ProcessCall
  \/ \E e \in RefreshErrors : RejectAllCall(e)
  \/ ClearCall

SpecQueue == Init /\ [][NextQueue]_vars

\* ---- RequestQueue with callbacks that call back into the queue ----

\* `this.queue.forEach(cb)` when the callback of the waiter at position k
\* calls this.queue.add(t) (and ignores an overflow error): forEach reads the
\* length of the array once, before the first callback, so it visits the
\* waiters of q and never the one appended meanwhile; `array` is this.queue
\* when the loop ends, `events` the callbacks invoked and the add made
forEachAdding(q, cap, k, t, evs) ==
  LET a == add(q, cap, t)
  IN [array  |-> a.queue,
      events |-> SubSeq(evs, 1, k) \o <<Ev("add", "", t, "", a.thrown)>>
                   \o SubSeq(evs, k + 1, Len(evs))]

\* process() when the resolve callback of the waiter at position k adds t
processAdding(q, cap, k, t) ==
  LET loop == forEachAdding(q, cap, k, t, process(q).events)
  IN [queue |-> clear(loop.array), events |-> loop.events]

\* rejectAll(error) when the reject callback of the waiter at position k adds t
rejectAllAdding(q, cap, k, t, error) ==
  LET loop == forEachAdding(q, cap, k, t, rejectAll(q, error).events)
  IN [queue |-> clear(loop.array), events |-> loop.events]

\* queue.process() with the callback at position k adding a new waiter
ProcessAddingCall(k) ==
  /\ nTasks < MaxReleasePoint
  /\ k \in 1..Len(queue)
  /\ LET t == nTasks + 1
         p == processAdding(queue, maxSize, k, t)
     IN /\ nTasks' = t
        /\ queue' = p.queue
        /\ task' = Settle(Append(task, Pending), p.events)
        /\ escaped' = Append(escaped, NoError)
        /\ log' = log \o p.events
  /\ thrown' = NoError
  /\ lastOp' = "process"
  /\ addRun' = 0
  /\ UNCHANGED <<options, maxSize, isRefreshing, adapter, nRegs, awaiting,
                 shouldRefresh, lastRegistered, observed>>

\* queue.rejectAll(error) with the callback at position k adding a new waiter
RejectAllAddingCall(k, error) ==
  /\ nTasks < MaxReleasePoint
  /\ k \in 1..Len(queue)
  /\ LET t == nTasks + 1
         r == rejectAllAdding(queue, maxSize, k, t, error)
     IN /\ nTasks' = t
        /\ queue' = r.queue
        /\ task' = Settle(Append(task, Pending), r.events)
        /\ escaped' = Append(escaped, NoError)
        /\ log' = log \o r.events
  /\ thrown' = NoError
  /\ lastOp' = "rejectAll"
  /\ addRun' = 0
  /\ UNCHANGED <<options, maxSize, isRefreshing, adapter, nRegs, awaiting,
                 shouldRefresh, lastRegistered, observed>>

NextQueueReentrant ==
  \/ AddCall
  \/ ProcessCall
  \/ \E e \in RefreshErrors : RejectAllCall(e)
  \/ \E k \in 1..Len(queue) : ProcessAddingCall(k)
  \/ \E k \in 1..Len(queue) : \E e \in RefreshErrors : RejectAllAddingCall(k, e)

SpecQueueReentrant == Init /\ [][NextQueueReentrant]_vars

\* ------------------------------------------------ vocabulary of the claims
Range(q) == {q[i] : i \in 1..Len(q)}

\* indices of the events named ev in the log l
EventsOf(l, ev) == {i \in 1..Len(l) : l[i].ev = ev}

\* number of times a callback of task t was invoked
Releases(l, t) ==
  Cardinality({i \in 1..Len(l) : l[i].ev \in {"resolve", "reject"} /\ l[i].task = t})

\* capacity asked for at construction
Capacity == IF options.given THEN options.maxQueueSize ELSE 100

\* the step is one on401 call
On401Step == nTasks' = nTasks + 1

\* the step is the resumption of on401 after the settlement recorded in the
\* first event the step appends
ResumeStep == Len(log') > Len(log) /\ log'[Len(log) + 1].ev = "refreshSettled"
StepSettlement == log'[Len(log) + 1]
SucceededWith(e) == e.err = NoError /\ e.val \notin {Null, ""}

\* events appended by the step
Appended == SubSeq(log', Len(log) + 1, Len(log'))

\* C1: single-flight.  At most one refreshToken operation is outstanding in
\* every state, and an on401 call issued while a refresh is pending neither
\* invokes refreshToken nor adds an outstanding operation: the cycle has seen
\* exactly one refreshToken invocation since the previous settlement.
C1_SingleFlight ==
  [][/\ Cardinality(awaiting') <= 1
     /\ (On401Step /\ awaiting # {}) =>
          /\ awaiting' = awaiting
          /\ EventsOf(log', "refreshToken") = EventsOf(log, "refreshToken")
     /\ awaiting' # {} =>
          \E i \in EventsOf(log', "refreshToken") :
            /\ \A j \in EventsOf(log', "refreshToken") : j <= i
            /\ \A j \in EventsOf(log', "refreshSettled") \cup EventsOf(log', "refreshThrew") : j < i
    ]_vars

\* three on401 calls of one cycle are waiting on a single refreshToken call
C1_Witness ==
  /\ Cardinality(awaiting) = 1
  /\ Len(queue) = 3
  /\ Cardinality(EventsOf(log, "refreshToken")) = 1

\* a caller's promise and its task are both settled
Settled(t) == t <= nTasks /\ task[t].st # "pending" /\ Returned(t).st # "pending"

\* C2: liveness.  When every refreshToken eventually settles, every on401
\* caller admitted to the queue is eventually settled, fulfilled or rejected
\* with a reason: again and again every caller issued so far is settled (a
\* settled promise stays settled), and no caller is pending in a state in
\* which no refresh is outstanding.
C2_Liveness ==
  /\ []<>(\A t \in 1..nTasks : Settled(t))
  /\ [](awaiting = {} => \A t \in 1..nTasks : Settled(t))

\* a trigger and a caller queued behind it have both been settled by the
\* refresh they waited on
C2_Witness ==
  /\ awaiting = {}
  /\ nTasks >= 2
  /\ Settled(1) /\ Settled(2)
  /\ Releases(log, 1) = 1 /\ Releases(log, 2) = 1
  /\ Cardinality(EventsOf(log, "refreshSettled")) = 1

\* C3: a waiter's completion is invoked at most once (resolve or reject,
\* never both, never again in a later cycle), and a released waiter is no
\* longer stored.
C3_AtMostOnce ==
  \A t \in 1..nTasks :
    /\ Releases(log, t) <= 1
    /\ Releases(log, t) = 1 => t \notin Range(queue)

\* a second cycle has released its waiter after a first cycle released two
C3_Witness ==
  /\ Cardinality(EventsOf(log, "refreshSettled")) = 2
  /\ nTasks = 3
  /\ \A t \in 1..3 : Releases(log, t) = 1
  /\ log[Len(log)].task = 3

ThrewStep == Len(log') > Len(log) + 1 /\ log'[Len(log) + 2].ev = "refreshThrew"

\* C5: failure fan-out.  When the refresh settles with an empty credential
\* or raises, every waiter queued at that moment is rejected, all with the
\* same reason, none is resolved, and the waiter count is 0 afterwards.
C5_FailureFanOut ==
  [][/\ (ResumeStep /\ ~SucceededWith(StepSettlement)) =>
          /\ StepSettlement.task \in Range(queue)
          /\ \A t \in Range(queue) :
               /\ task'[t].st = "rejected"
               /\ Returned(t)'.st = "rejected"
               /\ \A u \in Range(queue) :
                    task'[u].err = task'[t].err /\ Returned(u)'.err = task'[t].err
               /\ \E i \in 1..Len(Appended) :
                    Appended[i] = Ev("reject", "", t, "", task'[t].err)
          /\ \A i \in 1..Len(Appended) : Appended[i].ev # "resolve"
          /\ size(queue') = 0
     /\ ThrewStep =>
          /\ \A t \in {nTasks + 1} :
               /\ Returned(t)' = Rejected(log'[Len(log) + 2].err)
               /\ Releases(log', t) = 1
          /\ \A i \in 1..Len(Appended) : Appended[i].ev # "resolve"
          /\ size(queue') = 0
    ]_vars

\* three waiters of one cycle have all been rejected with the error raised
\* by refreshToken
C5_Witness ==
  /\ nTasks = 3
  /\ \A t \in 1..3 : Returned(t) = Rejected(Error("E1", 0))
  /\ Cardinality(EventsOf(log, "refreshSettled")) = 1
  /\ size(queue) = 0

\* C6: capacity invariant of the queue.  After any sequence of add, process,
\* rejectAll and clear, size() <= capacity; an add that would exceed the
\* capacity throws the overflow error and its task is not stored.
C6_CapacityInvariant ==
  /\ size(queue) <= Capacity
  /\ (lastOp = "add" /\ nTasks \notin Range(queue)) =>
       thrown # NoError /\ size(queue) = Capacity
  /\ (lastOp = "add" /\ thrown # NoError) => nTasks \notin Range(queue)

\* an add was refused by a full queue of explicit capacity 2
C6_Witness ==
  /\ lastOp = "add"
  /\ thrown # NoError
  /\ options.given /\ Capacity = 2
  /\ size(queue) = 2

\* C7: overflow boundary.  Starting from an empty queue of capacity C (100
\* when maxSize is not given), consecutive add calls number 1..C succeed and
\* are stored, and call number C+1 (and later ones) throws the overflow error
\* naming C and leaves size() at C.
C7_OverflowBoundary ==
  /\ addRun = 0 => size(queue) = 0
  /\ (lastOp = "add" /\ addRun <= Capacity) =>
       /\ thrown = NoError
       /\ size(queue) = addRun
       /\ queue[addRun] = nTasks
  /\ (lastOp = "add" /\ addRun > Capacity) =>
       /\ thrown = Error("Queue overflow: maximum size of ${this.maxSize} exceeded", Capacity)
       /\ size(queue) = Capacity

\* the 101st consecutive add on a queue built without maxSize was refused
C7_Witness ==
  /\ ~options.given
  /\ lastOp = "add"
  /\ addRun = 101
  /\ thrown.size = 100
  /\ size(queue) = 100

\* C8: coordinator overflow.  While the refresh started by call c is
\* pending, the k-th on401 call of the cycle (c is the first) is queued and
\* pending when k <= C, and is rejected with the overflow error naming C and
\* not queued when k > C, where C >= 1 is the configured maxQueueSize.
C8_CoordinatorOverflow ==
  \A c \in awaiting :
    \A t \in c..nTasks :
      IF t - c + 1 <= Capacity
        THEN /\ size(queue) >= t - c + 1
             /\ queue[t - c + 1] = t
             /\ Returned(t) = Pending
        ELSE /\ t \notin Range(queue)
             /\ Returned(t) = Rejected(Error("Queue overflow: maximum size of ${this.maxSize} exceeded", Capacity))
             /\ size(queue) = Capacity

\* with maxQueueSize 2 the third call of a pending cycle was rejected
C8_Witness ==
  /\ awaiting = {1}
  /\ options.given /\ Capacity = 2
  /\ queue = <<1, 2>>
  /\ nTasks = 3
  /\ Returned(3).st = "rejected" /\ Returned(3).err.size = 2

\* the promise returned by on401 call t is rejected with the overflow error
FailedWithOverflow(t) ==
  /\ Returned(t).st = "rejected"
  /\ Returned(t).err.msg = "Queue overflow: maximum size of ${this.maxSize} exceeded"

\* C9: an on401 call that fails with the overflow error causes no state
\* transition: the refreshing flag, the stored waiters and their order, the
\* outstanding refresh and the registered adapter are unchanged, and no
\* adapter method (refreshToken, applyToken, logout) or task callback is
\* invoked by the call.
C9_OverflowNoTransition ==
  [][\A t \in {nTasks + 1} :
       (On401Step /\ FailedWithOverflow(t)') =>
         /\ isRefreshing' = isRefreshing
         /\ queue' = queue
         /\ awaiting' = awaiting
         /\ adapter' = adapter
         /\ log' = log
    ]_vars

\* a call was rejected with overflow while the refresh is still pending
C9_Witness ==
  /\ awaiting # {}
  /\ isRefreshing
  /\ \E t \in 1..nTasks : FailedWithOverflow(t)
  /\ size(queue) = Capacity

\* C10: an on401 call made while no adapter is registered is rejected with
\* the 'Adapter not registered' error, invokes no adapter method, and leaves
\* the coordinator as it found it, Idle with waiter count 0; an on401 call
\* made while Idle with an adapter registered, whatever calls failed before,
\* invokes that adapter's refreshToken.
C10_AdapterNotRegistered ==
  [][\A t \in {nTasks + 1} :
       /\ (On401Step /\ adapter = NoAdapter) =>
            /\ Returned(t)' = Rejected(Error("Adapter not registered", 0))
            /\ \A i \in 1..Len(Appended) : Appended[i].ev \in {"resolve", "reject"}
            /\ ~isRefreshing /\ ~isRefreshing'
            /\ size(queue) = 0 /\ size(queue') = 0
            /\ awaiting = {} /\ awaiting' = {}
            /\ adapter' = adapter
       /\ (On401Step /\ adapter # NoAdapter /\ ~isRefreshing) =>
            /\ Len(Appended) >= 1
            /\ Appended[1] = Ev("refreshToken", adapter, 0, "", NoError)
            /\ ThrewStep \/ (isRefreshing' /\ awaiting' = {t} /\ queue' = <<t>>)
    ]_vars

\* the first call failed for lack of an adapter, and a call made after
\* registerAdapter has a refresh pending
C10_Witness ==
  /\ nTasks >= 2
  /\ Returned(1) = Rejected(Error("Adapter not registered", 0))
  /\ awaiting = {2}
  /\ isRefreshing
  /\ queue = <<2>>

\* C11: a freshly constructed coordinator is Idle: as long as no on401 call has
\* been made (adapter registrations included), the refreshing getter reports
\* false and the queueSize getter reports 0.
C11_IdleStart == nTasks = 0 => (refreshing = FALSE /\ queueSize = 0)

C11_Witness ==
  /\ nTasks = 0
  /\ nRegs = 2
  /\ adapter # NoAdapter
  /\ refreshing = FALSE
  /\ queueSize = 0

\* the tasks released by a sequence of events, in the order of their release
RECURSIVE ReleasedIn(_)
ReleasedIn(evs) ==
  IF evs = << >> THEN << >>
  ELSE IF Head(evs).ev \in {"resolve", "reject"}
    THEN <<Head(evs).task>> \o ReleasedIn(Tail(evs))
    ELSE ReleasedIn(Tail(evs))

\* an on401 call made while Idle, with an adapter registered and room for one
IdleTrigger ==
  /\ On401Step
  /\ ~refreshing
  /\ adapter # NoAdapter
  /\ Capacity >= 1

\* C12: an on401 call made while Idle (adapter registered, capacity >= 1)
\* becomes the only waiter of a new cycle and invokes refreshToken exactly
\* once, as the first thing the call does to the adapter, within that one call.
\* When refreshToken returns its promise the call leaves the coordinator
\* Refreshing with the trigger as the first and only waiter (waiter count 1);
\* when refreshToken raises synchronously the same call already runs the
\* failure path on the queue it built, which held exactly the trigger.
C12_IdleToRefreshing ==
  [][\A t \in {nTasks + 1} :
       IdleTrigger =>
         /\ queueSize = 0
         /\ Cardinality(EventsOf(Appended, "refreshToken")) = 1
         /\ Appended[1] = Ev("refreshToken", adapter, 0, "", NoError)
         /\ IF ThrewStep
              THEN /\ ReleasedIn(Appended) = <<t>>
                   /\ Returned(t)' = Rejected(Appended[2].err)
              ELSE /\ Len(Appended) = 1
                   /\ refreshing'
                   /\ queue' = <<t>>
                   /\ queueSize' = 1
                   /\ awaiting' = {t}
                   /\ Returned(t)' = Pending
    ]_vars

\* a second cycle has just been triggered: the trigger is the only waiter and
\* the last thing that happened is the call of refreshToken
C12_Witness ==
  /\ nTasks = 3
  /\ refreshing
  /\ queue = <<3>>
  /\ queueSize = 1
  /\ awaiting = {3}
  /\ Len(log) >= 2
  /\ log[Len(log)].ev = "refreshToken"

\* the calls admitted in the cycle that call c triggered: c and the later
\* calls that were not turned away for overflow
AdmittedSince(c) == {t \in c..nTasks : ~FailedWithOverflow(t)}

\* C13: an on401 call made while Refreshing with the queue below capacity
\* leaves the coordinator Refreshing, appends the caller to the queue (waiter
\* count + 1) and invokes no adapter method, refreshToken included; and while
\* the refresh of a cycle is pending, queueSize reports the number of calls
\* admitted in that cycle, the trigger included.
C13_RefreshingToRefreshing ==
  /\ [][\A t \in {nTasks + 1} :
          (On401Step /\ refreshing /\ queueSize < Capacity) =>
            /\ refreshing'
            /\ queueSize' = queueSize + 1
            /\ queue' = Append(queue, t)
            /\ Appended = << >>
            /\ awaiting' = awaiting
            /\ Returned(t)' = Pending
       ]_vars
  /\ [](\A c \in awaiting :
          /\ refreshing
          /\ queueSize = Cardinality(AdmittedSince(c))
          /\ Range(queue) = AdmittedSince(c))

\* three calls admitted in one cycle under the default capacity
C13_Witness ==
  /\ refreshing
  /\ awaiting = {1}
  /\ queueSize = 3
  /\ Cardinality(AdmittedSince(1)) = 3
  /\ Cardinality(EventsOf(log, "refreshToken")) = 1

\* C14: when a refresh settles with a non-empty credential, applyToken is
\* called with it, once, before any waiter of the cycle is released: in what
\* the resumption does, the applyToken call comes directly after the
\* settlement and every resolve comes after it, and every queued waiter is
\* resolved.
C14_ApplyBeforeRelease ==
  [][(ResumeStep /\ SucceededWith(StepSettlement)) =>
       /\ Len(Appended) >= 2
       /\ Appended[2] = Ev("applyToken", adapter, 0, StepSettlement.val, NoError)
       /\ Cardinality(EventsOf(Appended, "applyToken")) = 1
       /\ \A i \in EventsOf(Appended, "resolve") : i > 2
       /\ EventsOf(Appended, "reject") = {}
       /\ ReleasedIn(Appended) = queue
    ]_vars

\* a cycle with two waiters has just succeeded
C14_Witness ==
  /\ Len(log) >= 4
  /\ log[Len(log) - 3].ev = "refreshSettled"
  /\ log[Len(log) - 2].ev = "applyToken"
  /\ log[Len(log) - 1].ev = "resolve"
  /\ log[Len(log)].ev = "resolve"
  /\ ~refreshing

\* the waiters a step finds queued, the caller included when the step is an
\* on401 call that was admitted
QueuedInStep ==
  Range(queue) \cup {t \in {nTasks + 1} : On401Step /\ ~FailedWithOverflow(t)'}

\* C15: on the failure path logout is invoked only after every waiter queued
\* in the cycle has been rejected: whenever a step invokes logout, every waiter
\* queued at that point has had its reject callback invoked before the logout
\* call, nothing is released after it, and the queue is empty.
C15_RejectBeforeLogout ==
  [][\A i \in EventsOf(Appended, "logout") :
       /\ Appended[i].adapter = adapter /\ HasLogout(adapter)
       /\ EventsOf(Appended, "resolve") = {}
       /\ \A j \in EventsOf(Appended, "reject") : j < i
       /\ Range(ReleasedIn(SubSeq(Appended, 1, i - 1))) = QueuedInStep
       /\ QueuedInStep # {}
       /\ \A t \in QueuedInStep : task'[t].st = "rejected"
       /\ queueSize' = 0
    ]_vars

\* a cycle with two waiters has just failed on an adapter that has logout
C15_Witness ==
  /\ Len(log) >= 4
  /\ log[Len(log) - 3].ev = "refreshSettled"
  /\ log[Len(log) - 2].ev = "reject"
  /\ log[Len(log) - 1].ev = "reject"
  /\ log[Len(log)].ev = "logout"
  /\ ~refreshing

\* C16: on the success path and on the failure path alike the waiters of a
\* cycle are released in the order of their admission: whenever a step invokes
\* waiter callbacks, it invokes one callback for each queued waiter, and a
\* waiter admitted earlier (a smaller call number) has its callback invoked
\* before one admitted later.
C16_FifoRelease ==
  [][LET rel == ReleasedIn(Appended)
     IN rel # << >> =>
          /\ \A i, j \in 1..Len(rel) : i < j => rel[i] < rel[j]
          /\ Range(rel) = QueuedInStep
          /\ \/ EventsOf(Appended, "reject") = {}
             \/ EventsOf(Appended, "resolve") = {}
    ]_vars

\* three waiters of one cycle have been rejected, in the order 1, 2, 3
C16_Witness ==
  /\ nTasks = 3
  /\ ReleasedIn(log) = <<1, 2, 3>>
  /\ EventsOf(log, "resolve") = {}
  /\ Cardinality(EventsOf(log, "refreshToken")) = 1
  /\ queueSize = 0

\* a step in which a refresh settles: the promise of refreshToken settles and
\* on401 resumes, or refreshToken raises within the call that invoked it
CycleSettles == ResumeStep \/ (On401Step /\ ThrewStep)

\* C17: no state is terminal. When a cycle settles, by success or by failure,
\* the coordinator is Idle again with nothing queued and no refresh pending;
\* and every on401 call made while Idle with an adapter registered, however
\* many cycles went before and however they ended, invokes refreshToken
\* exactly once and opens a cycle of its own.
C17_NoTerminalState ==
  [][/\ CycleSettles =>
          /\ ~refreshing'
          /\ queueSize' = 0
          /\ awaiting' = {}
     /\ IdleTrigger =>
          /\ Cardinality(EventsOf(Appended, "refreshToken")) = 1
          /\ Cardinality(EventsOf(log', "refreshToken"))
               = Cardinality(EventsOf(log, "refreshSettled"))
                   + Cardinality(EventsOf(log, "refreshThrew")) + 1
          /\ ThrewStep \/ (refreshing' /\ awaiting' = {nTasks + 1})
    ]_vars

\* a third cycle is running after one cycle that succeeded and one that failed
C17_Witness ==
  /\ Cardinality(EventsOf(log, "refreshToken")) = 3
  /\ Cardinality(EventsOf(log, "refreshSettled")) = 2
  /\ EventsOf(log, "resolve") # {}
  /\ EventsOf(log, "reject") # {}
  /\ refreshing
  /\ awaiting = {3}

\* refreshToken completed without raising and without a credential
EmptyCredential(e) == e.err = NoError /\ e.val \in {Null, ""}

\* C18: when refreshToken completes with an empty credential (null or the
\* empty string) without raising, every queued waiter is rejected, none is
\* resolved and applyToken is not called; every rejection carries the same
\* synthesized error with the message 'Token refresh failed'; and the error
\* reaches the callers as the rejection of the promise their on401 call
\* returned, nothing being raised out of on401 itself.
C18_RefreshFailed ==
  [][(ResumeStep /\ EmptyCredential(StepSettlement)) =>
       /\ EventsOf(Appended, "resolve") = {}
       /\ EventsOf(Appended, "applyToken") = {}
       /\ ReleasedIn(Appended) = queue
       /\ queue # << >>
       /\ \A i \in EventsOf(Appended, "reject") :
            Appended[i].err = Error("Token refresh failed", 0)
       /\ \A t \in Range(queue) :
            /\ Returned(t) = Pending
            /\ Returned(t)' = Rejected(Error("Token refresh failed", 0))
       /\ escaped' = escaped
       /\ thrown' = thrown
    ]_vars

\* a refresh has resolved with the empty string and two waiters were rejected
\* with the synthesized error
C18_Witness ==
  \E i \in 1..Len(log) :
    /\ i + 2 <= Len(log)
    /\ log[i].ev = "refreshSettled"
    /\ log[i].val = ""
    /\ log[i].err = NoError
    /\ log[i + 1] = Ev("reject", "", log[i + 1].task, "", Error("Token refresh failed", 0))
    /\ log[i + 2] = Ev("reject", "", log[i + 2].task, "", Error("Token refresh failed", 0))
    /\ task[log[i + 2].task] = Rejected(Error("Token refresh failed", 0))

\* C19: when refreshToken raises an error e, by rejecting its promise or by
\* raising within the call, every waiter queued in that cycle is rejected with
\* e itself: each reject callback receives the value refreshToken raised, not
\* the synthesized error nor a wrapper, and no waiter is resolved.
C19_RefreshError ==
  [][/\ (ResumeStep /\ StepSettlement.err # NoError) =>
          /\ StepSettlement.err \in RefreshErrors
          /\ EventsOf(Appended, "resolve") = {}
          /\ EventsOf(Appended, "applyToken") = {}
          /\ ReleasedIn(Appended) = queue
          /\ queue # << >>
          /\ \A i \in EventsOf(Appended, "reject") :
               Appended[i].err = StepSettlement.err
          /\ \A t \in Range(queue) : Returned(t)' = Rejected(StepSettlement.err)
     /\ (On401Step /\ ThrewStep) =>
          /\ Appended[2].err \in RefreshErrors
          /\ EventsOf(Appended, "resolve") = {}
          /\ EventsOf(Appended, "applyToken") = {}
          /\ ReleasedIn(Appended) = <<nTasks + 1>>
          /\ \A i \in EventsOf(Appended, "reject") :
               Appended[i].err = Appended[2].err
          /\ \A t \in {nTasks + 1} : Returned(t)' = Rejected(Appended[2].err)
    ]_vars

\* the promise of refreshToken was rejected with e and two waiters were
\* rejected with e
C19_Witness ==
  \E i \in 1..Len(log) :
    /\ i + 2 <= Len(log)
    /\ log[i].ev = "refreshSettled"
    /\ log[i].err \in RefreshErrors
    /\ log[i + 1] = Ev("reject", "", log[i + 1].task, "", log[i].err)
    /\ log[i + 2] = Ev("reject", "", log[i + 2].task, "", log[i].err)
    /\ task[log[i + 1].task] = Rejected(log[i].err)

\* the cycles of a history whose refresh ended in failure: refreshToken
\* completed with an empty credential, rejected its promise, or raised
FailedCycles(l) ==
  {i \in 1..Len(l) :
     \/ l[i].ev = "refreshSettled" /\ ~SucceededWith(l[i])
     \/ l[i].ev = "refreshThrew"}

\* C20: logout is invoked once per failed cycle and never otherwise. A step in
\* which a refresh ends in failure while the registered adapter provides
\* logout invokes that logout exactly once, however many waiters it rejects;
\* every other step (a refresh that returned a non-empty credential, a call
\* that is queued, overflows or finds no adapter, a failure under an adapter
\* without logout) invokes no logout. Hence, while the only adapter ever
\* registered is one that provides logout, the number of logout invocations
\* equals the number of failed cycles.
C20_SignOutCount ==
  /\ [][LET failed == CycleSettles /\ FailedCycles(Appended) # {}
        IN Cardinality(EventsOf(Appended, "logout"))
             = IF failed /\ HasLogout(adapter) THEN 1 ELSE 0
       ]_vars
  /\ []((nRegs <= 1 /\ adapter \in {NoAdapter, "A"}) =>
          Cardinality(EventsOf(log, "logout")) = Cardinality(FailedCycles(log)))

\* two failed cycles under an adapter with logout, three waiters rejected, two
\* logout invocations
C20_Witness ==
  /\ nRegs = 1
  /\ adapter = "A"
  /\ HasLogout(adapter)
  /\ Cardinality(FailedCycles(log)) = 2
  /\ Cardinality(EventsOf(log, "reject")) = 3
  /\ Cardinality(EventsOf(log, "logout")) = 2
  /\ ~refreshing

\* the step is a resumption in which applyToken is invoked and raises
ApplyThrewStep ==
  /\ ResumeStep
  /\ \E i \in EventsOf(Appended, "applyToken") : Appended[i].err # NoError

\* C21 as claimed: an error raised by applyToken on the success path is not
\* caught by the coordinator: in the resumption in which applyToken raises, no
\* waiter is rejected, the waiters stay queued and logout is not invoked.
C21_ApplyErrorNotCaught ==
  [][ApplyThrewStep =>
       /\ EventsOf(Appended, "reject") = {}
       /\ EventsOf(Appended, "logout") = {}
       /\ queue' = queue
    ]_vars

\* C21 as amended: an error raised by applyToken on the success path is caught
\* by the catch clause of on401 and handled as a refresh failure: no waiter is
\* resolved, the reject callback of every queued waiter is invoked with that
\* error, in admission order, logout is then invoked once if the registered
\* adapter provides it and not otherwise, the queue is empty and the
\* refreshing flag is reset.
C21_ApplyErrorCaught ==
  [][ApplyThrewStep =>
       /\ SucceededWith(StepSettlement)
       /\ Cardinality(EventsOf(Appended, "applyToken")) = 1
       /\ EventsOf(Appended, "resolve") = {}
       /\ ReleasedIn(Appended) = queue
       /\ queue # << >>
       /\ \A i \in EventsOf(Appended, "reject") :
            /\ Appended[i].err = ApplyError
            /\ \A j \in EventsOf(Appended, "applyToken") \cup {1} : j < i
       /\ \A t \in Range(queue) : task'[t] = Rejected(ApplyError)
       /\ Cardinality(EventsOf(Appended, "logout")) = (IF HasLogout(adapter) THEN 1 ELSE 0)
       /\ \A i \in EventsOf(Appended, "logout") : i = Len(Appended)
       /\ queueSize' = 0
       /\ ~refreshing'
    ]_vars

\* applyToken raised, two waiters were rejected with its error and logout was
\* invoked
C21_Witness ==
  /\ Len(log) >= 5
  /\ log[Len(log) - 4].ev = "refreshSettled"
  /\ log[Len(log) - 3].ev = "applyToken"
  /\ log[Len(log) - 3].err = ApplyError
  /\ log[Len(log) - 2] = Ev("reject", "", log[Len(log) - 2].task, "", ApplyError)
  /\ log[Len(log) - 1] = Ev("reject", "", log[Len(log) - 1].task, "", ApplyError)
  /\ log[Len(log)].ev = "logout"
  /\ ~refreshing

\* the cycles of a history whose refresh returned a non-empty credential
SucceededCycles(l) ==
  {i \in 1..Len(l) : l[i].ev = "refreshSettled" /\ SucceededWith(l[i])}

\* C22: applyToken is invoked once in every cycle whose refresh returned a
\* non-empty credential, with exactly that credential, and in no other step:
\* not when the refresh returned an empty credential or raised, not in a call
\* that is queued or fails.  Hence in every state the number of applyToken
\* invocations equals the number of cycles that returned a non-empty
\* credential, and every applyToken invocation directly follows the settlement
\* whose credential it receives.
C22_CredentialApplication ==
  /\ [][LET applied == EventsOf(Appended, "applyToken")
        IN IF ResumeStep /\ SucceededWith(StepSettlement)
             THEN /\ Cardinality(applied) = 1
                  /\ \A i \in applied :
                       /\ Appended[i].val = StepSettlement.val
                       /\ Appended[i].val \in Tokens
                       /\ Appended[i].adapter = adapter
             ELSE applied = {}
       ]_vars
  /\ [](/\ Cardinality(EventsOf(log, "applyToken")) = Cardinality(SucceededCycles(log))
        /\ \A i \in EventsOf(log, "applyToken") :
             /\ i - 1 \in SucceededCycles(log)
             /\ log[i].val = log[i - 1].val)

\* three cycles: two returned a credential and one did not; applyToken was
\* invoked twice
C22_Witness ==
  /\ Cardinality(EventsOf(log, "refreshSettled")) = 3
  /\ Cardinality(SucceededCycles(log)) = 2
  /\ Cardinality(EventsOf(log, "applyToken")) = 2
  /\ EventsOf(log, "reject") # {}
  /\ ~refreshing

\* the last call was isAuthError
Classified == observed.op = "isAuthError"

\* the error carries the number 401 as response.status or as status
Carries401(e) ==
  \/ e.kind = "object" /\ e.hasResponse /\ e.responseStatus = Num(401)
  \/ e.kind \in {"object", "Response"} /\ e.status = Num(401)

\* C23: when a custom classifier is configured, isAuthError(e) returns what
\* the custom classifier returns for e, for every e: false from a classifier
\* that returns false even where e carries a 401, true from one that returns
\* true even where e carries none; the default heuristics have no say.
C23_ClassifierPrecedence ==
  (Classified /\ shouldRefresh # NoClassifier) =>
    /\ observed.bool = Custom(shouldRefresh, observed.arg)
    /\ shouldRefresh = "never" => observed.bool = FALSE
    /\ shouldRefresh = "always" => observed.bool = TRUE
    /\ shouldRefresh = "forbidden" =>
         observed.bool = (\/ ResponseStatusOf(observed.arg) = Num(403)
                          \/ StatusOf(observed.arg) = Num(403))

\* a classifier that returns false was asked about { response: { status: 401 } }
\* and isAuthError returned false
C23_Witness ==
  /\ Classified
  /\ shouldRefresh = "never"
  /\ observed.arg = ErrorValue("object", TRUE, Num(401), Undefined)
  /\ Carries401(observed.arg)
  /\ observed.bool = FALSE

\* C24: with no custom classifier configured, isAuthError(e) is true exactly
\* when e.response.status is the number 401 or e.status is the number 401
\* (nested response, own status field, Response object), and false for every
\* other value: status 403 or 500, the string '401', null, undefined,
\* primitives and objects without those fields.
C24_DefaultClassifier ==
  (Classified /\ shouldRefresh = NoClassifier) =>
    /\ observed.arg \in ErrorValues
    /\ observed.bool = Carries401(observed.arg)
    /\ observed.arg.kind \in {"nullish", "primitive"} => observed.bool = FALSE
    /\ (/\ observed.arg.responseStatus \in {Undefined, Num(403), Num(500), Str(401)}
        /\ observed.arg.status \in {Undefined, Num(403), Num(500), Str(401)})
         => observed.bool = FALSE

\* the default classifier was asked about a Response object with status 401
\* and returned true
C24_Witness ==
  /\ Classified
  /\ shouldRefresh = NoClassifier
  /\ observed.arg = ErrorValue("Response", FALSE, Undefined, Num(401))
  /\ observed.bool = TRUE

\* the step is a read-only call (one whose result differs from the last)
ReadStep == observed' # observed

\* C25: isAuthError and the getters refreshing and queueSize are read-only.
\* In every state, a call of one of them leaves the refreshing flag, the
\* stored waiters, the registered adapter, the suspended refresh and every
\* caller's promise as they were and invokes no adapter method; refreshing
\* returns the flag as it is at the call, queueSize returns the number of
\* waiters stored at the call, and isAuthError returns the classification of
\* its argument.
C25_ReadOnly ==
  [][ReadStep =>
       /\ UNCHANGED <<isRefreshing, queue, adapter, maxSize, awaiting, nTasks, task,
                      escaped, log, options, shouldRefresh>>
       /\ observed'.op \in {"isAuthError", "refreshing", "queueSize"}
       /\ observed'.op = "refreshing" => observed'.bool = isRefreshing
       /\ observed'.op = "queueSize" => observed'.num = Len(queue)
       /\ observed'.op = "isAuthError" =>
            observed'.bool = (IF shouldRefresh = NoClassifier
                                THEN Carries401(observed'.arg)
                                ELSE Custom(shouldRefresh, observed'.arg))
    ]_vars

\* queueSize was read while a refresh was pending with two waiters stored
C25_Witness ==
  /\ observed = Observation("queueSize", NullishError, FALSE, 2)
  /\ isRefreshing
  /\ awaiting # {}
  /\ Len(queue) = 2

\* the step is one registerAdapter call
RegisterStep == nRegs' = nRegs + 1

\* C26: registerAdapter replaces the registered adapter by its argument,
\* whatever was registered before, and changes nothing else: the refreshing
\* flag, the stored waiters, the suspended refresh and every caller's promise
\* are as they were and no adapter method is invoked; and every refresh cycle
\* started afterwards invokes refreshToken once, of the adapter registered
\* last.
C26_RegisterAdapterFrame ==
  /\ [][/\ RegisterStep =>
             /\ lastRegistered' \in Adapters
             /\ adapter' = lastRegistered'
             /\ UNCHANGED <<isRefreshing, queue, maxSize, awaiting, nTasks, task,
                            escaped, log>>
        /\ IdleTrigger =>
             /\ Cardinality(EventsOf(Appended, "refreshToken")) = 1
             /\ \A i \in EventsOf(Appended, "refreshToken") :
                  Appended[i].adapter = lastRegistered
       ]_vars
  /\ [](adapter = lastRegistered)

\* after a cycle run on adapter A, adapter B was registered and the cycle
\* started since has invoked refreshToken of B
C26_Witness ==
  /\ nRegs = 2
  /\ lastRegistered = "B"
  /\ \E i \in EventsOf(log, "refreshToken") : log[i].adapter = "A"
  /\ Len(log) >= 2
  /\ log[Len(log)] = Ev("refreshToken", "B", 0, "", NoError)
  /\ refreshing

\* C27: a hung refresh.  While the outstanding refreshToken has not settled,
\* every step other than its settlement leaves the coordinator Refreshing with
\* the same refresh outstanding; no callback of any waiter is invoked, no
\* promise changes state and no waiter leaves the queue (the stored waiters
\* remain a prefix of the queue, so the count never decreases); an on401 call
\* is appended to the queue while the queue is below capacity, and fails with
\* the overflow error, leaving the queue as it is, once the capacity is
\* reached.
C27_HungRefresh ==
  [][(awaiting # {} /\ ~ResumeStep) =>
       /\ refreshing /\ refreshing'
       /\ awaiting' = awaiting
       /\ Appended = << >>
       /\ Len(queue') >= Len(queue)
       /\ SubSeq(queue', 1, Len(queue)) = queue
       /\ \A t \in 1..nTasks : task'[t] = task[t] /\ Returned(t)' = Returned(t)
       /\ \A t \in {nTasks + 1} :
            On401Step =>
              IF queueSize < Capacity
                THEN queue' = Append(queue, t) /\ Returned(t)' = Pending
                ELSE queue' = queue /\ FailedWithOverflow(t)'
    ]_vars

\* the refresh is still outstanding after the queue of capacity 2 filled up
\* and a third call failed with overflow; both admitted callers still wait
C27_Witness ==
  /\ Capacity = 2
  /\ nTasks = 3
  /\ awaiting = {1}
  /\ refreshing
  /\ queue = <<1, 2>>
  /\ Returned(1) = Pending /\ Returned(2) = Pending
  /\ FailedWithOverflow(3)
  /\ EventsOf(log, "refreshSettled") = {}

\* C28: with a capacity of at least 1 the on401 call that triggers a cycle is
\* never rejected with overflow, in the first cycle or after any history of
\* cycles: whenever the coordinator is Idle the queue is empty, so the add of
\* a call made while Idle succeeds and the call's promise never carries the
\* overflow error.
C28_TriggerNeverOverflows ==
  /\ [](Capacity >= 1 /\ maxSize = Capacity)
  /\ [](~refreshing => queueSize = 0)
  /\ [][\A t \in {nTasks + 1} :
          (On401Step /\ ~refreshing) =>
            /\ add(queue, maxSize, t).thrown = NoError
            /\ ~FailedWithOverflow(t)'
            /\ IdleTrigger /\ ~ThrewStep => queue' = <<t>>
       ]_vars

\* with capacity 1, the third cycle has been triggered after a succeeded and a
\* failed one, and its trigger is queued
C28_Witness ==
  /\ Capacity = 1
  /\ nTasks = 3
  /\ queue = <<3>>
  /\ awaiting = {3}
  /\ Returned(3) = Pending
  /\ EventsOf(log, "resolve") # {}
  /\ EventsOf(log, "reject") # {}

\* C29: clear() empties the queue and invokes no callback: a clear() call
\* leaves size() at 0, appends no resolve or reject to the history and leaves
\* every task's promise as it was (the stored ones pending); and a process()
\* or rejectAll() that follows it directly invokes nothing either.
C29_ClearSilently ==
  /\ [][lastOp' = "clear" =>
          /\ size(queue') = 0
          /\ log' = log
          /\ task' = task
          /\ \A t \in Range(queue) : task'[t] = Pending /\ Releases(log', t) = 0
       ]_vars
  /\ [][(lastOp = "clear" /\ lastOp' \in {"process", "rejectAll"}) =>
          /\ log' = log
          /\ task' = task
          /\ size(queue') = 0
       ]_vars
  /\ [](lastOp = "clear" => size(queue) = 0)

\* three tasks were added and cleared: the queue is empty, no callback was
\* ever invoked and the three promises are pending
C29_Witness ==
  /\ lastOp = "clear"
  /\ nTasks = 3
  /\ size(queue) = 0
  /\ log = << >>
  /\ \A t \in 1..nTasks : task[t] = Pending

\* number of refreshToken operations invoked and not yet settled
Outstanding(l) ==
  Cardinality(EventsOf(l, "refreshToken"))
    - Cardinality(EventsOf(l, "refreshSettled"))
    - Cardinality(EventsOf(l, "refreshThrew"))

\* C30: no torn state.  In every state in which a caller's on401 can run, the
\* refreshing flag is true exactly when one refresh operation is outstanding;
\* the waiter count is 0 exactly when the coordinator is Idle; and while it is
\* Refreshing the caller that triggered the cycle is queued, first in the
\* queue, so the count is at least 1.
C30_NoTornState ==
  /\ Outstanding(log) \in {0, 1}
  /\ refreshing <=> Outstanding(log) = 1
  /\ refreshing <=> awaiting # {}
  /\ Cardinality(awaiting) <= 1
  /\ queueSize = 0 <=> ~refreshing
  /\ refreshing => (queueSize >= 1 /\ queue[1] \in awaiting)
  /\ ~refreshing => queue = << >>

\* a second cycle is running with its trigger and one more caller queued
C30_Witness ==
  /\ refreshing
  /\ Outstanding(log) = 1
  /\ Cardinality(EventsOf(log, "refreshSettled")) = 1
  /\ awaiting = {2}
  /\ queue = <<2, 3>>

\* the adapter on which the refresh that is outstanding, or ran last, was started
StartedOn(l) ==
  l[CHOOSE i \in EventsOf(l, "refreshToken") :
      \A j \in EventsOf(l, "refreshToken") : j <= i].adapter

\* C31: adapter replaced during a refresh.  When a refresh settles, the
\* credential is applied to (on success), and logout is invoked on (on
\* failure), the adapter registered at that moment, also when another adapter
\* was registered when refreshToken was called: applyToken is invoked once
\* with the credential of the refreshToken that was started, logout is invoked
\* exactly when the adapter registered now provides it, the waiters are
\* rejected with the error of the refresh that was started, and no method of
\* the replaced adapter is invoked.
C31_AdapterAtCompletion ==
  [][ResumeStep =>
       /\ \A i \in EventsOf(Appended, "applyToken") \cup EventsOf(Appended, "logout") :
            /\ Appended[i].adapter = lastRegistered
            /\ lastRegistered # StartedOn(log) => Appended[i].adapter # StartedOn(log)
       /\ IF SucceededWith(StepSettlement)
            THEN /\ Cardinality(EventsOf(Appended, "applyToken")) = 1
                 /\ \A i \in EventsOf(Appended, "applyToken") :
                      Appended[i].val = StepSettlement.val
                 /\ EventsOf(Appended, "logout") = {}
            ELSE /\ EventsOf(Appended, "applyToken") = {}
                 /\ Cardinality(EventsOf(Appended, "logout"))
                      = IF HasLogout(lastRegistered) THEN 1 ELSE 0
                 /\ StepSettlement.err # NoError =>
                      \A i \in EventsOf(Appended, "reject") :
                        Appended[i].err = StepSettlement.err
    ]_vars

\* refreshToken was called on adapter A, adapter B was registered while it was
\* outstanding, and the credential it produced has been applied to B
C31_Witness ==
  /\ ~refreshing
  /\ lastRegistered = "B"
  /\ \E i \in 1..Len(log) :
       /\ i + 2 <= Len(log)
       /\ log[i] = Ev("refreshToken", "A", 0, "", NoError)
       /\ log[i + 1].ev = "refreshSettled"
       /\ log[i + 2] = Ev("applyToken", "B", 0, "tok1", NoError)

\* C33: the overflow failure is reported at call time.  An on401 call made
\* while a refresh is outstanding and the queue is at capacity returns a
\* promise that is already rejected with the overflow error, in the step of
\* the call itself: the refresh is still outstanding afterwards and nothing
\* else happened.  From then on the failed caller's result never changes: no
\* later step, the settlement of the refresh by success or by failure
\* included, invokes a callback of that caller or alters its promise.
C33_OverflowAtCallTime ==
  [][/\ \A t \in {nTasks + 1} :
          (On401Step /\ refreshing /\ queueSize >= Capacity) =>
            /\ FailedWithOverflow(t)'
            /\ Returned(t)' = Rejected(OverflowError(Capacity))
            /\ refreshing' /\ awaiting' = awaiting /\ awaiting # {}
            /\ Appended = << >>
     /\ \A t \in 1..nTasks :
          FailedWithOverflow(t) =>
            /\ Returned(t)' = Returned(t)
            /\ task'[t] = task[t]
            /\ \A i \in 1..Len(Appended) :
                 Appended[i].ev \in {"resolve", "reject"} => Appended[i].task # t
    ]_vars

\* caller 3 failed with the overflow error while the refresh was outstanding;
\* the refresh then succeeded and released callers 1 and 2, and caller 3 is
\* still rejected with the overflow error
C33_Witness ==
  /\ nTasks = 3
  /\ ~refreshing
  /\ FailedWithOverflow(3)
  /\ Returned(1) = Fulfilled("true") /\ Returned(2) = Fulfilled("true")
  /\ \E i \in EventsOf(log, "refreshSettled") : SucceededWith(log[i])

\* the callers whose promise a step settles by invoking their stored callbacks
ReleasedByStep == {t \in 1..nTasks : t \in Range(ReleasedIn(Appended))}

\* C34: released callers resume only after the cycle is closed.  A step that
\* releases callers (their stored callbacks are invoked) ends with the
\* refreshing flag false, no waiter stored and no refresh outstanding, and the
\* released callers, whose continuations run after that step, find their
\* promises settled; an on401 call issued from that state by a released caller
\* is not added to the queue of the cycle that ended: it invokes refreshToken
\* anew and is the only waiter of the cycle it starts, or the only caller of a
\* cycle whose refreshToken raised at once.
C34_ReleasedAfterClose ==
  [][/\ ReleasedByStep # {} =>
          /\ ~refreshing' /\ queueSize' = 0 /\ awaiting' = {}
          /\ \A t \in ReleasedByStep : Returned(t)'.st # "pending"
     /\ \A t \in {nTasks + 1} :
          (IdleTrigger /\ \E c \in 1..nTasks : Settled(c) /\ Releases(log, c) > 0) =>
            /\ queueSize = 0
            /\ Cardinality(EventsOf(Appended, "refreshToken")) = 1
            /\ \A c \in 1..nTasks : Releases(Appended, c) = 0
            /\ \/ refreshing' /\ queue' = <<t>> /\ awaiting' = {t}
               \/ ThrewStep /\ ~refreshing' /\ queue' = << >> /\ Releases(Appended, t) = 1
    ]_vars

\* callers 1 and 2 were released by a cycle that succeeded, and the call made
\* next has started a cycle of its own in which it is the only waiter
C34_Witness ==
  /\ nTasks = 3
  /\ Returned(1) = Fulfilled("true") /\ Returned(2) = Fulfilled("true")
  /\ refreshing /\ queue = <<3>> /\ awaiting = {3}
  /\ Cardinality(EventsOf(log, "refreshToken")) = 2

\* a step in which an adapter callback raised: applyToken or logout
CallbackRaisedStep ==
  \E i \in 1..Len(Appended) :
    Appended[i].ev \in {"applyToken", "logout"} /\ Appended[i].err # NoError

\* C36: the coordinator never stays stuck in Refreshing.  Every step in which
\* a refresh settles, by a credential, by an empty credential, by a rejection
\* or by refreshToken raising synchronously, and whether or not applyToken or
\* logout raises in it, ends with the refreshing flag false; so the flag is
\* true only while a refreshToken promise is outstanding.
C36_FlagAlwaysReset ==
  /\ [][CycleSettles => ~refreshing']_vars
  /\ [](refreshing => awaiting # {} /\ Outstanding(log) = 1)
  /\ [](awaiting = {} => ~refreshing /\ Outstanding(log) = 0)

\* a cycle settled with a credential, applyToken raised and so did logout;
\* the next cycle ended in its first step because refreshToken raised
\* synchronously; the flag is false
C36_Witness ==
  /\ ~refreshing
  /\ \E i \in EventsOf(log, "applyToken") : log[i].err = ApplyError
  /\ \E i \in EventsOf(log, "logout") : log[i].err = LogoutError
  /\ log[Len(log)].ev \in {"reject", "logout", "refreshThrew"}
  /\ EventsOf(log, "refreshThrew") # {}

\* the caller whose on401 call started the cycle that settles in this step
StepTrigger == IF ResumeStep THEN StepSettlement.task ELSE nTasks + 1

\* C37: uniform outcome for the triggering caller.  When a cycle settles,
\* also when the adapter's applyToken or logout raises, the promise returned
\* to the caller that triggered the cycle is settled with the same outcome as
\* the promise of every caller queued during the cycle, true when the
\* credential was applied and the same failure reason otherwise, and logout
\* is invoked at most once in the cycle.
C37_UniformOutcome ==
  [][CycleSettles =>
       /\ \A c \in {StepTrigger} :
            /\ Returned(c)'.st # "pending"
            /\ \A t \in Range(queue) : Returned(t)' = Returned(c)'
            /\ (SucceededWith(StepSettlement) /\ ~CallbackRaisedStep) =>
                 Returned(c)' = Fulfilled("true")
       /\ Cardinality(EventsOf(Appended, "logout")) <= 1
    ]_vars

\* the waiters a step stored by an add made from inside a callback
AddedInStep ==
  {Appended[i].task : i \in {j \in EventsOf(Appended, "add") : Appended[j].err = NoError}}

\* C32: re-entrant admission.  No waiter is dropped from the queue by
\* process() or rejectAll() without having been invoked: every waiter stored
\* before the call, and every waiter that a callback stored while the call
\* was iterating, has had its callback invoked in that pass or is still
\* stored when the call returns.
C32_NoWaiterLost ==
  [][lastOp' \in {"process", "rejectAll"} =>
       \A t \in Range(queue) \cup AddedInStep :
         t \in Range(ReleasedIn(Appended)) \/ t \in Range(queue')
    ]_vars

\* the on401 calls that were made from inside an adapter callback
NestedCalls == {log[i].task : i \in EventsOf(log, "on401")}

\* C35: an on401 call made from inside an adapter callback of a running cycle
\* (refreshToken's synchronous part, applyToken or logout) is never stranded:
\* its waiter is stored in the queue only while the coordinator is
\* Refreshing, and once it is no longer stored it has been released, by the
\* fan-out of the cycle, or it failed at once with the overflow error.
C35_NeverStranded ==
  \A t \in NestedCalls :
    IF t \in Range(queue)
      THEN refreshing /\ Returned(t) = Pending
      ELSE FailedWithOverflow(t) \/ (Releases(log, t) = 1 /\ Returned(t).st # "pending")

====
